---- MODULE Spec2Model ----
(***************************************************************************)
(* Model of server.js: a two-party private chat relay on socket.io.        *)
(* Node runs every handler to completion on one thread, so each handler is *)
(* one atomic action.  socket.disconnect(true) fires the socket's          *)
(* 'disconnect' listeners synchronously, so a close made inside a handler  *)
(* runs the disconnect handler (lines 178-196) nested in that handler.     *)
(* The order of a handler's effects is kept in the variable trace.         *)
(***************************************************************************)
EXTENDS Integers, Sequences, FiniteSets, TLC

\* ---------------------------------------------------------------- bounds
\* Spec: three sockets and a short log; SpecLog: two sockets and a longer log
MaxConns == 3       \* sockets that ever connect under Spec (ids 1..MaxConns)
MaxMsgs  == 1       \* accepted messages under Spec
LogConns == 2       \* sockets that ever connect under SpecLog
LogMsgs  == 2       \* accepted messages under SpecLog
MaxNonce == 1       \* distinct (Date.now, random) parts of a token per user
MaxClock == 1       \* largest value of Date.now()
MaxRand  == 1       \* distinct random id suffixes

\* ------------------------------------------------------- program constants
MaxImageLen == 4000000

ALLOWED_USERS == [u \in {"rafee@12", "irfane@12"} |-> "2632"]

\* ------------------------------------------------------------ value sets
Users     == DOMAIN ALLOWED_USERS
NoUser    == ""                 \* undefined userId (falsy)
NoSocket  == 0                  \* undefined socket id
PrivateRoom == 0                \* address of the room 'private-room'
Conns     == 1..MaxConns     \* with LogConns <= MaxConns

\* a token `${userId}:${Date.now()}:${randomPart}`; EmptyToken is ''
Tokens     == [uid : Users, nonce : 1..MaxNonce]
EmptyToken == [uid |-> NoUser, nonce |-> 0]
TokenInputs == Tokens \cup {EmptyToken}

LoginIds  == Users \cup {"mallory"}
Passwords == {"2632", "0000"}

\* text: a sequence of characters, or not given at all
NoText     == [given |-> FALSE, val |-> << >>]
TextInputs == {NoText} \cup
              {[given |-> TRUE, val |-> s] :
                  s \in {<< >>, <<" ">>, <<"h">>, <<" ", "h", " ">>}}

\* image: its head (the text up to and including the first comma) and length
AllowedHeads == {"data:image/png;base64,", "data:image/jpeg;base64,",
                 "data:image/jpg;base64,", "data:image/webp;base64,",
                 "data:image/gif;base64,"}
NoImage     == [head |-> "", len |-> 0]
ImageInputs == {NoImage,
                [head |-> "data:image/png;base64,", len |-> MaxImageLen],
                [head |-> "data:image/png;base64,", len |-> MaxImageLen + 1],
                [head |-> "data:image/gif;base64,", len |-> 64],
                [head |-> "data:image/bmp;base64,", len |-> 64]}

VARIABLES
    sessions,        \* Map token -> userId
    connectedUsers,  \* Map userId -> socket id
    socketToUser,    \* Map socket id -> userId
    profilePictures, \* Map userId -> image
    messages,        \* the chat history
    broadcasts,      \* the 'message' payloads sent to a non-empty room, in order
    st,              \* per socket id: "init", "open" or "closed"
    room,            \* sockets in 'private-room'
    now,             \* Date.now()
    last,            \* the event handled by the last step
    trace            \* the effects of the last step, in order

vars == <<sessions, connectedUsers, socketToUser, profilePictures, messages,
          broadcasts, st, room, now, last, trace>>

\* ------------------------------------------------------------ Map helpers
MapGet(m, k, undef) == IF k \in DOMAIN m THEN m[k] ELSE undef
MapSet(m, k, v) == [x \in DOMAIN m \cup {k} |-> IF x = k THEN v ELSE m[x]]
MapDelete(m, k) == [x \in DOMAIN m \ {k} |-> m[x]]
EmptyMap == [x \in {} |-> 0]

\* ------------------------------------------------------- pure functions
RECURSIVE TrimStart(_)
TrimStart(s) == IF s # << >> /\ Head(s) = " " THEN TrimStart(Tail(s)) ELSE s

RECURSIVE TrimEnd(_)
TrimEnd(s) == IF s # << >> /\ s[Len(s)] = " "
              THEN TrimEnd(SubSeq(s, 1, Len(s) - 1)) ELSE s

\* faulty variant: the text is used as it came
Trim_None(s) == s

Trim(s) == TrimEnd(TrimStart(s))

\* String(text || '')
StringOrEmpty(tx) == IF tx.given THEN tx.val ELSE << >>

\* /^data:image\/(png|jpeg|jpg|webp|gif);base64,/.test(image)
isDataImage(image) == image.head \in AllowedHeads

\* faulty variant: the cap itself is refused
InvalidImage_Inclusive(image) == ~isDataImage(image) \/ image.len >= MaxImageLen

\* profilePicture, line 165
InvalidImage(image) == ~isDataImage(image) \/ image.len > MaxImageLen

getOtherUser(userId) ==
    IF \E u \in Users : u # userId
    THEN CHOOSE u \in Users : u # userId
    ELSE NoUser

\* ------------------------------------------- the state a handler works on
\* S = [cu, s2u, st, room, trace]
Effect(kind, ev, addr, rcpt, arg) ==
    [kind |-> kind, ev |-> ev, addr |-> addr, rcpt |-> rcpt, arg |-> arg]

\* the connected sockets in the room named addr
SocketsIn(S, addr) ==
    IF addr = PrivateRoom THEN S.room
    ELSE IF addr \in Conns /\ S.st[addr] = "open" THEN {addr} ELSE {}

\* io.to(addr).emit(ev, arg) and socket.emit(ev, arg)
Emit(S, addr, ev, arg) ==
    [S EXCEPT !.trace = Append(@, Effect("emit", ev, addr, SocketsIn(S, addr), arg))]

getOnlineStatusFor(S, userId) ==
    LET other == getOtherUser(userId)
    IN  IF other = NoUser THEN FALSE ELSE other \in DOMAIN S.cu

\* faulty variant: the socket's socketToUser entry is kept
OnDisconnect_KeepEntry(S, sid) ==
    LET userId == MapGet(S.s2u, sid, NoUser)
    IN  IF userId = NoUser THEN S
        ELSE
        LET knownSocketId == MapGet(S.cu, userId, NoSocket)
            S2 == IF knownSocketId = sid
                  THEN [S EXCEPT !.cu = MapDelete(@, userId)]
                  ELSE S
            other == getOtherUser(userId)
        IN  IF other # NoUser /\ other \in DOMAIN S2.cu
            THEN Emit(S2, S2.cu[other], "presence",
                      [userId |-> userId, online |-> FALSE])
            ELSE S2

\* faulty variant: the slot of the other identity is cleared
OnDisconnect_OtherSlot(S, sid) ==
    LET userId == MapGet(S.s2u, sid, NoUser)
    IN  IF userId = NoUser THEN S
        ELSE
        LET S1 == [S EXCEPT !.s2u = MapDelete(@, sid)]
            knownSocketId == MapGet(S1.cu, userId, NoSocket)
            other == getOtherUser(userId)
            S2 == IF knownSocketId = sid
                  THEN [S1 EXCEPT !.cu = MapDelete(MapDelete(@, userId), other)]
                  ELSE S1
        IN  IF other # NoUser /\ other \in DOMAIN S2.cu
            THEN Emit(S2, S2.cu[other], "presence",
                      [userId |-> userId, online |-> FALSE])
            ELSE S2

\* socket.on('disconnect')
OnDisconnect(S, sid) ==
    LET userId == MapGet(S.s2u, sid, NoUser)
    IN  IF userId = NoUser THEN S
        ELSE
        LET S1 == [S EXCEPT !.s2u = MapDelete(@, sid)]
            knownSocketId == MapGet(S1.cu, userId, NoSocket)
            S2 == IF knownSocketId = sid
                  THEN [S1 EXCEPT !.cu = MapDelete(@, userId)]
                  ELSE S1
            other == getOtherUser(userId)
        IN  IF other # NoUser /\ other \in DOMAIN S2.cu
            THEN Emit(S2, S2.cu[other], "presence",
                      [userId |-> userId, online |-> FALSE])
            ELSE S2

\* the socket leaves its rooms, is no longer connected, and its
\* 'disconnect' listener runs
CloseSocket(S, sid) ==
    LET S1 == [S EXCEPT !.st[sid] = "closed",
                        !.room = @ \ {sid},
                        !.trace = Append(@, Effect("close", "", sid, {}, [reason |-> "close"]))]
    IN  OnDisconnect(S1, sid)

\* socket.disconnect(true): nothing when the socket is not connected
SocketDisconnect(S, sid) ==
    IF S.st[sid] = "open" THEN CloseSocket(S, sid) ELSE S

\* faulty variant: the error is sent and the socket stays connected
RejectJoin_NoClose(S, sid, message) ==
    Emit(S, sid, "joinError", [message |-> message])

\* join, lines 89-93 and 107-111: the error goes to the socket, which is closed
RejectJoin(S, sid, message) ==
    SocketDisconnect(Emit(S, sid, "joinError", [message |-> message]), sid)

\* faulty variant: the old socket is told and never closed
EvictExisting_NoClose(S, sid, userId) ==
    LET existingSocketId == MapGet(S.cu, userId, NoSocket)
    IN  IF existingSocketId # NoSocket /\ existingSocketId # sid
        THEN Emit(S, existingSocketId, "forceLogout",
                  [message |-> "You logged in from another session."])
        ELSE S

\* join, lines 95-103: the socket that holds the user's slot is told and closed
EvictExisting(S, sid, userId) ==
    LET existingSocketId == MapGet(S.cu, userId, NoSocket)
    IN  IF existingSocketId # NoSocket /\ existingSocketId # sid
        THEN SocketDisconnect(
                 Emit(S, existingSocketId, "forceLogout",
                      [message |-> "You logged in from another session."]),
                 existingSocketId)
        ELSE S

\* faulty variant: socketToUser is not written
Admit_NoReverseEntry(S, sid, userId) ==
    LET S1 == [S EXCEPT
                  !.cu = MapSet(@, userId, sid),
                  !.trace = Append(@, Effect("set", "connectedUsers", sid, {},
                                             [userId |-> userId]))]
    IN  [S1 EXCEPT !.room = @ \cup {sid}]

\* faulty variant: the socket does not join 'private-room'
Admit_NoRoom(S, sid, userId) ==
    LET S1 == [S EXCEPT
                  !.cu = MapSet(@, userId, sid),
                  !.trace = Append(@, Effect("set", "connectedUsers", sid, {},
                                             [userId |-> userId]))]
    IN  [S1 EXCEPT !.s2u = MapSet(@, sid, userId)]

\* join, lines 113-115
Admit(S, sid, userId) ==
    LET S1 == [S EXCEPT
                  !.cu = MapSet(@, userId, sid),
                  !.trace = Append(@, Effect("set", "connectedUsers", sid, {},
                                             [userId |-> userId]))]
    IN  [S1 EXCEPT !.s2u = MapSet(@, sid, userId),
                   !.room = @ \cup {sid}]

\* faulty variant: the history is left out of 'joined'
JoinedPayload_NoHistory(S, userId) ==
    [userId |-> userId,
     messages |-> << >>,
     profilePicture |-> MapGet(profilePictures, userId, NoImage),
     otherOnline |-> getOnlineStatusFor(S, userId)]

\* join, lines 117-122: the payload of 'joined'
JoinedPayload(S, userId) ==
    [userId |-> userId,
     messages |-> messages,
     profilePicture |-> MapGet(profilePictures, userId, NoImage),
     otherOnline |-> getOnlineStatusFor(S, userId)]

\* join, lines 117-130
Announce(S, sid, userId) ==
    LET S1 == Emit(S, sid, "joined", JoinedPayload(S, userId))
        other == getOtherUser(userId)
    IN  IF other # NoUser /\ other \in DOMAIN S1.cu
        THEN Emit(S1, S1.cu[other], "presence",
                  [userId |-> userId, online |-> TRUE])
        ELSE S1

\* faulty variant: one occupied slot already counts as a full chat
ChatIsFull_AtOne(S, userId) ==
    Cardinality(DOMAIN S.cu) >= 1 /\ userId \notin DOMAIN S.cu

\* join, line 105: both slots are taken and neither by userId
ChatIsFull(S, userId) ==
    Cardinality(DOMAIN S.cu) >= 2 /\ userId \notin DOMAIN S.cu

\* faulty variant: the slot is written first and the old socket evicted after it
JoinAs_AdmitFirst(S, sid, userId) ==
    LET existingSocketId == MapGet(S.cu, userId, NoSocket)
        S1 == Admit(S, sid, userId)
        S2 == IF existingSocketId # NoSocket /\ existingSocketId # sid
              THEN SocketDisconnect(
                       Emit(S1, existingSocketId, "forceLogout",
                            [message |-> "You logged in from another session."]),
                       existingSocketId)
              ELSE S1
    IN  Announce(S2, sid, userId)

\* join, lines 95-130: the token resolved to userId
JoinAs(S, sid, userId) ==
    LET S1 == EvictExisting(S, sid, userId)
    IN  IF ChatIsFull(S1, userId)
        THEN RejectJoin(S1, sid, "Chat is private")
        ELSE Announce(Admit(S1, sid, userId), sid, userId)

\* socket.on('join')
OnJoin(S, sid, token) ==
    LET userId == MapGet(sessions, token, NoUser)
    IN  IF userId = NoUser
        THEN RejectJoin(S, sid, "Unauthorized")
        ELSE JoinAs(S, sid, userId)

\* ----------------------------------------------------------------- state
Cur == [cu |-> connectedUsers, s2u |-> socketToUser, st |-> st,
        room |-> room, trace |-> << >>]

Commit(S) ==
    /\ connectedUsers' = S.cu
    /\ socketToUser' = S.s2u
    /\ st' = S.st
    /\ room' = S.room
    /\ trace' = S.trace

Event(op, sid, token, text, image) ==
    [op |-> op, sid |-> sid, token |-> token, text |-> text, image |-> image]

Init ==
    /\ sessions = EmptyMap
    /\ connectedUsers = EmptyMap
    /\ socketToUser = EmptyMap
    /\ profilePictures = EmptyMap
    /\ messages = << >>
    /\ broadcasts = << >>
    /\ st = [c \in Conns |-> "init"]
    /\ room = {}
    /\ now = 0
    /\ last = Event("start", NoSocket, EmptyToken, NoText, NoImage)
    /\ trace = << >>

\* faulty variant: a failed login drops the sessions of the identity it named
Login_Revoke(userId, password, nonce) ==
    /\ IF userId \notin DOMAIN ALLOWED_USERS \/ ALLOWED_USERS[userId] # password
       THEN /\ sessions' = [t \in {x \in DOMAIN sessions : sessions[x] # userId}
                               |-> sessions[t]]
            /\ last' = Event("login", NoSocket, EmptyToken, NoText, NoImage)
            /\ trace' = <<Effect("reply", "401", NoSocket, {},
                                 [success |-> FALSE, message |-> "Invalid Login"])>>
       ELSE LET token == [uid |-> userId, nonce |-> nonce]
            IN  /\ sessions' = MapSet(sessions, token, userId)
                /\ last' = Event("login", NoSocket, token, NoText, NoImage)
                /\ trace' = <<Effect("reply", "200", NoSocket, {},
                                     [success |-> TRUE, token |-> token,
                                      userId |-> userId,
                                      profilePicture |->
                                          MapGet(profilePictures, userId, NoImage)])>>
    /\ UNCHANGED <<connectedUsers, socketToUser, profilePictures, messages,
                   broadcasts, st, room, now>>

\* app.post('/api/login'): userId is the normalized id, password the
\* trimmed password
Login(userId, password, nonce) ==
    /\ IF userId \notin DOMAIN ALLOWED_USERS \/ ALLOWED_USERS[userId] # password
       THEN /\ sessions' = sessions
            /\ last' = Event("login", NoSocket, EmptyToken, NoText, NoImage)
            /\ trace' = <<Effect("reply", "401", NoSocket, {},
                                 [success |-> FALSE, message |-> "Invalid Login"])>>
       ELSE LET token == [uid |-> userId, nonce |-> nonce]
            IN  /\ sessions' = MapSet(sessions, token, userId)
                /\ last' = Event("login", NoSocket, token, NoText, NoImage)
                /\ trace' = <<Effect("reply", "200", NoSocket, {},
                                     [success |-> TRUE, token |-> token,
                                      userId |-> userId,
                                      profilePicture |->
                                          MapGet(profilePictures, userId, NoImage)])>>
    /\ UNCHANGED <<connectedUsers, socketToUser, profilePictures, messages,
                   broadcasts, st, room, now>>

\* io.on('connection'): socket ids are opaque, so they are taken in order
Connect(sid) ==
    /\ st[sid] = "init"
    /\ \A c \in Conns : c < sid => st[c] # "init"
    /\ st' = [st EXCEPT ![sid] = "open"]
    /\ last' = Event("connection", sid, EmptyToken, NoText, NoImage)
    /\ trace' = << >>
    /\ UNCHANGED <<sessions, connectedUsers, socketToUser, profilePictures,
                   messages, broadcasts, room, now>>

Join(sid, token) ==
    /\ st[sid] = "open"
    /\ Commit(OnJoin(Cur, sid, token))
    /\ last' = Event("join", sid, token, NoText, NoImage)
    /\ UNCHANGED <<sessions, profilePictures, messages, broadcasts, now>>

\* faulty variant: the occupant of the slot is not compared with the socket
Authorized_TokenOnly(sid, token) == MapGet(sessions, token, NoUser) # NoUser

\* the first half of both handlers: the token resolves to a user whose slot
\* is held by this socket
Authorized(sid, token) ==
    LET userId == MapGet(sessions, token, NoUser)
    IN  userId # NoUser /\ MapGet(connectedUsers, userId, NoSocket) = sid

\* socket.on('message').  The two readings of Date.now() are now and t2,
\* rnd is the random suffix of the id, cap bounds the length of the log.  An unauthorized event returns before
\* text is read, so last does not keep it.
MessageRejected(sid, token) ==
    /\ st[sid] = "open"
    /\ ~Authorized(sid, token)
    /\ last' = Event("message", sid, token, NoText, NoImage)
    /\ trace' = Emit(Cur, sid, "joinError", [message |-> "Unauthorized"]).trace
    /\ UNCHANGED <<sessions, connectedUsers, socketToUser, profilePictures,
                   messages, broadcasts, st, room, now>>

MessageAccepted(sid, token, text, cap) ==
    LET userId == MapGet(sessions, token, NoUser)
        cleanText == Trim(StringOrEmpty(text))
    IN  /\ st[sid] = "open"
        /\ Authorized(sid, token)
        /\ last' = Event("message", sid, token, text, NoImage)
        /\ IF cleanText = << >>
           THEN /\ trace' = << >>
                /\ UNCHANGED <<messages, broadcasts, now>>
           ELSE /\ Len(messages) < cap
                /\ \E t2 \in now..MaxClock, rnd \in 1..MaxRand :
                      LET payload == [id |-> [ms |-> now, suffix |-> rnd],
                                      sender |-> userId,
                                      text |-> cleanText,
                                      timestamp |-> t2]
                      IN  /\ t2 <= now + 1
                          /\ messages' = Append(messages, payload)
                          /\ now' = t2
                          /\ trace' = Emit(Cur, PrivateRoom, "message", payload).trace
                          /\ broadcasts' = IF SocketsIn(Cur, PrivateRoom) # {}
                                           THEN Append(broadcasts, payload)
                                           ELSE broadcasts
        /\ UNCHANGED <<sessions, connectedUsers, socketToUser, profilePictures,
                       st, room>>

\* faulty variant: a stored picture is never replaced
StorePicture_FirstWins(pics, userId, image) ==
    IF userId \in DOMAIN pics THEN pics ELSE MapSet(pics, userId, image)

\* profilePicture, line 170
StorePicture(pics, userId, image) == MapSet(pics, userId, image)

\* socket.on('profilePicture'); an unauthorized event returns before
\* imageData is read, so last does not keep it
ProfilePictureRejected(sid, token) ==
    /\ st[sid] = "open"
    /\ ~Authorized(sid, token)
    /\ last' = Event("profilePicture", sid, token, NoText, NoImage)
    /\ trace' = Emit(Cur, sid, "joinError", [message |-> "Unauthorized"]).trace
    /\ UNCHANGED <<sessions, connectedUsers, socketToUser, profilePictures,
                   messages, broadcasts, st, room, now>>

ProfilePictureAccepted(sid, token, image) ==
    LET userId == MapGet(sessions, token, NoUser)
    IN  /\ st[sid] = "open"
        /\ Authorized(sid, token)
        /\ last' = Event("profilePicture", sid, token, NoText, image)
        /\ IF InvalidImage(image)
           THEN /\ trace' = Emit(Cur, sid, "profileError",
                                 [message |-> "Invalid image"]).trace
                /\ UNCHANGED profilePictures
           ELSE /\ profilePictures' = StorePicture(profilePictures, userId, image)
                /\ trace' = Emit(Cur, PrivateRoom, "profileUpdated",
                                 [userId |-> userId, imageData |-> image]).trace
        /\ UNCHANGED <<sessions, connectedUsers, socketToUser, messages,
                       broadcasts, st, room, now>>

\* the transport of an open socket closes (client left, network lost)
Disconnect(sid) ==
    /\ st[sid] = "open"
    /\ Commit(CloseSocket(Cur, sid))
    /\ last' = Event("disconnect", sid, EmptyToken, NoText, NoImage)
    /\ UNCHANGED <<sessions, profilePictures, messages, broadcasts, now>>

Tick ==
    /\ now < MaxClock
    /\ now' = now + 1
    /\ last' = Event("tick", NoSocket, EmptyToken, NoText, NoImage)
    /\ trace' = << >>
    /\ UNCHANGED <<sessions, connectedUsers, socketToUser, profilePictures,
                   messages, broadcasts, st, room>>

\* Date.now() reads the system clock, which an adjustment can set back
ClockSetBack ==
    /\ now > 0
    /\ \E t \in 0..(now - 1) : now' = t
    /\ last' = Event("clockset", NoSocket, EmptyToken, NoText, NoImage)
    /\ trace' = << >>
    /\ UNCHANGED <<sessions, connectedUsers, socketToUser, profilePictures,
                   messages, broadcasts, st, room>>

\* nc sockets connect and cap messages are accepted
NextWith(nc, cap) ==
    \/ \E u \in LoginIds, p \in Passwords, n \in 1..MaxNonce : Login(u, p, n)
    \/ \E c \in 1..nc : Connect(c)
    \/ \E c \in Conns, t \in TokenInputs : Join(c, t)
    \/ \E c \in Conns, t \in TokenInputs : MessageRejected(c, t)
    \/ \E c \in Conns, t \in TokenInputs, x \in TextInputs :
          MessageAccepted(c, t, x, cap)
    \/ \E c \in Conns, t \in TokenInputs : ProfilePictureRejected(c, t)
    \/ \E c \in Conns, t \in TokenInputs, i \in ImageInputs :
          ProfilePictureAccepted(c, t, i)
    \/ \E c \in Conns : Disconnect(c)
    \/ Tick
    \/ ClockSetBack

Next == NextWith(MaxConns, MaxMsgs)

Spec == Init /\ [][Next]_vars

NextLog == NextWith(LogConns, LogMsgs)

SpecLog == Init /\ [][NextLog]_vars

\* ======================================================== the claims
Live(c) == st[c] = "open"
SlotOf(u) == MapGet(connectedUsers, u, NoSocket)
UserOf(c) == MapGet(socketToUser, c, NoUser)
Represents(c, u) == SlotOf(u) = c \/ UserOf(c) = u
\* the same after the step
SlotOfN(u) == MapGet(connectedUsers', u, NoSocket)
UserOfN(c) == MapGet(socketToUser', c, NoUser)

\* positions of trace matching an emit of ev
EmitsOf(tr, ev) == {i \in 1..Len(tr) : tr[i].kind = "emit" /\ tr[i].ev = ev}
ClosesOf(tr, c) == {i \in 1..Len(tr) : tr[i].kind = "close" /\ tr[i].addr = c}
SetsOf(tr) == {i \in 1..Len(tr) : tr[i].kind = "set"}

KnownToken(t) == t \in DOMAIN sessions
PresenceUnchanged == connectedUsers' = connectedUsers /\ socketToUser' = socketToUser
StoresUnchanged ==
    /\ PresenceUnchanged
    /\ messages' = messages
    /\ profilePictures' = profilePictures
    /\ sessions' = sessions
    /\ room' = room

\* C1: no two distinct live connections are recorded, in connectedUsers or
\* socketToUser, as representing the same identity.
C1_OneConnectionPerIdentity ==
    \A u \in Users : \A c1, c2 \in Conns :
        (c1 # c2 /\ Live(c1) /\ Live(c2))
            => ~(Represents(c1, u) /\ Represents(c2, u))

\* a second connection has taken over a slot from a connection that was live
C1_Witness ==
    /\ last.op = "join"
    /\ \E i \in EmitsOf(trace, "forceLogout") : trace[i].rcpt # {}
    /\ \E u \in Users : SlotOf(u) = last.sid /\ Live(last.sid)
    /\ \E c \in Conns : c # last.sid /\ Live(c)

\* C2: in a join that takes a slot held by another connection c1, forceLogout
\* is addressed to c1 (and received by it, and c1 closed, when c1 is still
\* connected) before connectedUsers is set; c1 is not connected afterwards.
C2_EvictionBeforeAdmission ==
    [][\A u \in Users :
          (/\ last'.op = "join"
           /\ SlotOf(u) \notin {NoSocket, last'.sid}
           /\ SlotOfN(u) = last'.sid)
          => LET c1 == SlotOf(u)
             IN  /\ \A j \in SetsOf(trace') :
                       /\ \E i \in EmitsOf(trace', "forceLogout") :
                             /\ i < j
                             /\ trace'[i].addr = c1
                             /\ (Live(c1) => trace'[i].rcpt = {c1})
                       /\ Live(c1) => \E k \in ClosesOf(trace', c1) : k < j
                 /\ SetsOf(trace') # {}
                 /\ st'[c1] = "closed"]_vars

C2_Witness ==
    /\ last.op = "join"
    /\ \E i \in EmitsOf(trace, "forceLogout"), j \in SetsOf(trace) :
          /\ i < j
          /\ trace[i].rcpt # {}
          /\ ClosesOf(trace, trace[i].addr) # {}

\* C3: a join with a known token always ends with the joining connection as
\* the occupant of the identity's slot, having received joined; a different
\* connected socket that held the slot (the winner of an earlier join) has
\* received forceLogout, is closed and has left the Presence Table.
C3_SecondJoinEvictsFirst ==
    [][(last'.op = "join" /\ KnownToken(last'.token))
          => LET u  == sessions[last'.token]
                 c1 == SlotOf(u)
                 c2 == last'.sid
             IN  /\ SlotOfN(u) = c2
                 /\ UserOfN(c2) = u
                 /\ st'[c2] = "open"
                 /\ \E i \in EmitsOf(trace', "joined") : trace'[i].rcpt = {c2}
                 /\ (c1 \notin {NoSocket, c2} /\ Live(c1))
                       => /\ \E i \in EmitsOf(trace', "forceLogout") :
                                trace'[i].rcpt = {c1}
                          /\ st'[c1] = "closed"
                          /\ c1 \notin DOMAIN socketToUser'
                          /\ \A v \in Users : UserOf(c1) = v => SlotOfN(v) # c1]_vars

\* two connections joined one after the other with two tokens of one identity
C3_Witness ==
    /\ last.op = "join"
    /\ KnownToken(last.token)
    /\ \E i \in EmitsOf(trace, "forceLogout") :
          /\ trace[i].rcpt # {}
          /\ trace[i].addr # last.sid
          /\ st[trace[i].addr] = "closed"
    /\ SlotOf(sessions[last.token]) = last.sid

\* C4 as stated: a join with an unknown token leaves the Presence Table and
\* the Message Log as they were, for every connection.
C4_Original ==
    [][(last'.op = "join" /\ ~KnownToken(last'.token))
          => PresenceUnchanged /\ messages' = messages]_vars

\* C4 amended: a join with an unknown token sends joinError('Unauthorized') to
\* the requesting connection, closes it and leaves the Message Log unchanged;
\* the Presence Table is unchanged when the connection has no socketToUser
\* entry; otherwise the close removes that entry and clears the slot of that
\* identity when this connection holds it.
C4_UnknownTokenJoin ==
    [][(last'.op = "join" /\ ~KnownToken(last'.token))
          => LET c == last'.sid
                 u == UserOf(c)
             IN  /\ messages' = messages
                 /\ st'[c] = "closed"
                 /\ Len(trace') >= 2
                 /\ trace'[1] = Effect("emit", "joinError", c, {c},
                                       [message |-> "Unauthorized"])
                 /\ trace'[2].kind = "close" /\ trace'[2].addr = c
                 /\ \A i \in 1..Len(trace') :
                       trace'[i].kind = "close" => trace'[i].addr = c
                 /\ u = NoUser => PresenceUnchanged /\ Len(trace') = 2
                 /\ u # NoUser =>
                       /\ socketToUser' = MapDelete(socketToUser, c)
                       /\ connectedUsers' = IF SlotOf(u) = c
                                            THEN MapDelete(connectedUsers, u)
                                            ELSE connectedUsers]_vars

\* a connection that was never admitted sent the join while a slot is held
C4_Witness ==
    /\ last.op = "join"
    /\ ~KnownToken(last.token)
    /\ st[last.sid] = "closed"
    /\ DOMAIN connectedUsers # {}
    /\ Len(trace) = 2

\* C5: a message or profilePicture event whose token is unknown, or whose
\* connection is not the occupant of the slot of the token's identity, only
\* sends joinError('Unauthorized') to the sender: nothing else is emitted, no
\* store changes and the connection stays open.
C5_UnauthorizedSend ==
    [][(/\ last'.op \in {"message", "profilePicture"}
        /\ \/ ~KnownToken(last'.token)
           \/ SlotOf(sessions[last'.token]) # last'.sid)
          => /\ trace' = <<Effect("emit", "joinError", last'.sid, {last'.sid},
                                  [message |-> "Unauthorized"])>>
             /\ StoresUnchanged
             /\ st' = st
             /\ st'[last'.sid] = "open"]_vars

\* a known token is used on a connection that does not hold the slot, which
\* another connection holds
C5_Witness ==
    /\ last.op \in {"message", "profilePicture"}
    /\ KnownToken(last.token)
    /\ SlotOf(sessions[last.token]) \notin {NoSocket, last.sid}
    /\ EmitsOf(trace, "joinError") # {}

IsPrefix(a, b) == Len(a) <= Len(b) /\ SubSeq(b, 1, Len(a)) = a

\* C6: every step leaves the old Message Log as a prefix of the new one, and
\* the messages carried by a joined event are exactly the message payloads
\* broadcast so far, in broadcast order.
C6_AppendOnlyReplay ==
    [][/\ IsPrefix(messages, messages')
       /\ \A i \in EmitsOf(trace', "joined") :
             trace'[i].arg.messages = broadcasts']_vars

\* a joiner is replayed two messages that were broadcast before it joined
C6_Witness ==
    /\ last.op = "join"
    /\ \E i \in EmitsOf(trace, "joined") :
          /\ Len(trace[i].arg.messages) = 2
          /\ trace[i].rcpt = {last.sid}
    /\ Len(broadcasts) = 2

\* the connected sockets that hold a slot
LiveOccupants == {c \in Conns : Live(c) /\ \E u \in Users : SlotOf(u) = c}

AllBlank(s) == \A i \in 1..Len(s) : s[i] = " "

\* t is s without its leading and trailing blanks
IsTrimOf(t, s) ==
    /\ t # << >> => t[1] # " " /\ t[Len(t)] # " "
    /\ \E i \in 0..Len(s), j \in 0..Len(s) :
          /\ i + Len(t) + j = Len(s)
          /\ SubSeq(s, i + 1, i + Len(t)) = t
          /\ AllBlank(SubSeq(s, 1, i))
          /\ AllBlank(SubSeq(s, Len(s) - j + 1, Len(s)))

TextOf(tx) == IF tx.given THEN tx.val ELSE << >>

\* C7: an accepted message from the occupant of a slot is sent once, as one
\* payload with the sender's identity and the trimmed text, the payload that
\* is appended to the log, and it is received by exactly the connected
\* sockets that hold a slot, the sender among them.
C7_BroadcastToOccupants ==
    [][(/\ last'.op = "message"
        /\ KnownToken(last'.token)
        /\ SlotOf(sessions[last'.token]) = last'.sid
        /\ ~AllBlank(TextOf(last'.text)))
          => /\ Len(trace') = 1
             /\ trace'[1].kind = "emit" /\ trace'[1].ev = "message"
             /\ trace'[1].rcpt = LiveOccupants
             /\ last'.sid \in trace'[1].rcpt
             /\ trace'[1].arg.sender = sessions[last'.token]
             /\ IsTrimOf(trace'[1].arg.text, TextOf(last'.text))
             /\ messages' = Append(messages, trace'[1].arg)]_vars

\* both identities are joined, a third socket was closed, and a text with
\* blanks around it is delivered to the two occupants only
C7_Witness ==
    /\ last.op = "message"
    /\ Len(trace) = 1
    /\ trace[1].ev = "message"
    /\ Cardinality(trace[1].rcpt) = 2
    /\ \E c \in Conns : st[c] = "closed"
    /\ last.text.val # trace[1].arg.text

\* C8: an authorized message whose text is missing, empty or only blanks
\* emits nothing and changes no state.
C8_EmptyTextDropped ==
    [][(/\ last'.op = "message"
        /\ KnownToken(last'.token)
        /\ SlotOf(sessions[last'.token]) = last'.sid
        /\ AllBlank(TextOf(last'.text)))
          => /\ trace' = << >>
             /\ StoresUnchanged
             /\ broadcasts' = broadcasts
             /\ st' = st
             /\ now' = now]_vars

\* the occupant of a slot sent a text of blanks while the other party is joined
C8_Witness ==
    /\ last.op = "message"
    /\ last.text.given /\ last.text.val = <<" ">>
    /\ KnownToken(last.token)
    /\ SlotOf(sessions[last.token]) = last.sid
    /\ Cardinality(LiveOccupants) = 2

\* C9 as stated: when the connection that holds identity A's slot disconnects
\* while identity B is joined, A's slot becomes empty and presence{A, offline}
\* is addressed to B's connection.
C9_Original ==
    [][\A a \in Users :
          (/\ last'.op = "disconnect"
           /\ SlotOf(a) = last'.sid
           /\ getOtherUser(a) \in DOMAIN connectedUsers)
          => /\ a \notin DOMAIN connectedUsers'
             /\ \E i \in EmitsOf(trace', "presence") :
                   /\ trace'[i].arg = [userId |-> a, online |-> FALSE]
                   /\ trace'[i].addr = SlotOf(getOtherUser(a))]_vars

Signatures == {"data:image/png;base64,", "data:image/jpeg;base64,",
               "data:image/jpg;base64,", "data:image/webp;base64,",
               "data:image/gif;base64,"}

\* C10: an authorized profilePicture event whose image has no allowed
\* signature or is longer than 4,000,000 characters only sends
\* profileError('Invalid image') to the sender and leaves every store as it
\* was; an image with an allowed signature and at most 4,000,000 characters
\* is stored and profileUpdated is broadcast.
C10_InvalidImageRejected ==
    [][(/\ last'.op = "profilePicture"
        /\ KnownToken(last'.token)
        /\ SlotOf(sessions[last'.token]) = last'.sid)
          => IF last'.image.head \notin Signatures \/ last'.image.len > 4000000
             THEN /\ trace' = <<Effect("emit", "profileError", last'.sid,
                                       {last'.sid}, [message |-> "Invalid image"])>>
                  /\ StoresUnchanged
             ELSE /\ EmitsOf(trace', "profileUpdated") # {}
                  /\ EmitsOf(trace', "profileError") = {}
                  /\ profilePictures'[sessions[last'.token]] = last'.image]_vars

\* an image of 4,000,001 characters was refused while a picture was stored
C10_Witness ==
    /\ last.op = "profilePicture"
    /\ last.image.len = 4000001
    /\ EmitsOf(trace, "profileError") # {}
    /\ \E u \in DOMAIN profilePictures : profilePictures[u].len = 4000000

\* C11: an accepted profilePicture event sets the Profile Store entry of the
\* sender's identity to the submitted image, whatever was stored before,
\* leaves the other identity's entry, the Message Log, the Presence Table and
\* the Session Store as they were, and sends one profileUpdated{userId,
\* imageData} to the sockets of 'private-room'.
C11_ProfileUpdateFrame ==
    [][(/\ last'.op = "profilePicture"
        /\ KnownToken(last'.token)
        /\ SlotOf(sessions[last'.token]) = last'.sid
        /\ last'.image.head \in Signatures
        /\ last'.image.len <= MaxImageLen)
          => LET a == sessions[last'.token]
             IN  /\ DOMAIN profilePictures' = DOMAIN profilePictures \cup {a}
                 /\ profilePictures'[a] = last'.image
                 /\ \A b \in DOMAIN profilePictures :
                       b # a => profilePictures'[b] = profilePictures[b]
                 /\ messages' = messages
                 /\ PresenceUnchanged
                 /\ sessions' = sessions
                 /\ trace' = <<Effect("emit", "profileUpdated", PrivateRoom, room,
                                      [userId |-> a, imageData |-> last'.image])>>
                 /\ last'.sid \in room]_vars

\* an accepted picture of one identity while the other identity holds a
\* different one, announced to two sockets of the room
C11_Witness ==
    /\ last.op = "profilePicture"
    /\ EmitsOf(trace, "profileUpdated") # {}
    /\ KnownToken(last.token)
    /\ last.image.len = 64
    /\ Cardinality(DOMAIN profilePictures) = 2
    /\ \A u \in DOMAIN profilePictures :
          profilePictures[u].len = IF u = sessions[last.token] THEN 64 ELSE MaxImageLen
    /\ Cardinality(trace[1].rcpt) = 2

\* C12: on a join for identity A the event presence{userId: A, online: true}
\* is addressed only to the connection in the other identity's slot and only
\* when that slot is occupied; the joining connection never receives the
\* presence event that announces its own join.
C12_Original ==
    [][(last'.op = "join" /\ KnownToken(last'.token))
          => LET a == sessions[last'.token]
                 P == {i \in EmitsOf(trace', "presence") : trace'[i].arg.online}
             IN  \A i \in P :
                    /\ trace'[i].arg.userId = a
                    /\ \E o \in Users \ {a} : trace'[i].addr = SlotOfN(o)
                    /\ trace'[i].addr # last'.sid
                    /\ last'.sid \notin trace'[i].rcpt]_vars

\* C13: disconnect handling is idempotent: once the disconnect of a
\* connection has been handled, running the disconnect handler for that
\* connection again changes no store and emits no event.
C13_DisconnectIdempotent ==
    \A c \in Conns :
        st[c] = "closed"
          => LET R == OnDisconnect(Cur, c)
             IN  /\ R.cu = connectedUsers
                 /\ R.s2u = socketToUser
                 /\ R.st = st
                 /\ R.room = room
                 /\ R.trace = << >>

\* the disconnect of an admitted connection was just handled: it cleared the
\* connection's entries and told the other identity's connection
C13_Witness ==
    /\ last.op = "disconnect"
    /\ st[last.sid] = "closed"
    /\ \E i \in EmitsOf(trace, "presence") :
          ~trace[i].arg.online /\ trace[i].rcpt # {}
    /\ \A u \in Users : SlotOf(u) # last.sid
    /\ UserOf(last.sid) = NoUser

C15_SessionsOutliveConnections ==
    [][/\ last'.op \in {"join", "message", "profilePicture", "disconnect"}
            => sessions' = sessions
       /\ \A t \in DOMAIN sessions :
             t \in DOMAIN sessions' /\ sessions'[t] = sessions[t]
       /\ (last'.op = "join" /\ KnownToken(last'.token))
            => LET a == sessions[last'.token]
                   old == SlotOf(a)
               IN  /\ SlotOfN(a) = last'.sid
                   /\ UserOfN(last'.sid) = a
                   /\ (old # NoSocket /\ old # last'.sid /\ Live(old))
                        => /\ st'[old] = "closed"
                           /\ ClosesOf(trace', old) # {}
                           /\ EmitsOf(trace', "forceLogout") # {}]_vars

\* the third connection joined with an identity's token and evicted the
\* second one, after the first one had been closed
C15_Witness ==
    /\ last.op = "join"
    /\ last.sid = 3
    /\ KnownToken(last.token)
    /\ SlotOf(sessions[last.token]) = 3
    /\ st[1] = "closed" /\ st[2] = "closed"
    /\ ClosesOf(trace, 2) # {}
    /\ \E i \in EmitsOf(trace, "forceLogout") : trace[i].addr = 2
    /\ \A u \in Users : SlotOf(u) \in {NoSocket, 3}

\* C16: the timestamps of the Message Log are non-decreasing in append order:
\* every entry's timestamp is greater than or equal to the timestamp of every
\* entry appended before it.
C16_Original ==
    \A i, j \in 1..Len(messages) :
        i < j => messages[i].timestamp <= messages[j].timestamp

\* C17: no two entries of the Message Log have the same id: an appended
\* message's id differs from the id of every message appended before it, also
\* when both were accepted within the same clock tick.
C17_Original ==
    \A i, j \in 1..Len(messages) :
        i < j => messages[i].id # messages[j].id

\* C18: the Presence Table is a consistent two-way mapping in every
\* reachable state: connectedUsers[I] = c exactly when socketToUser[c] = I,
\* also after one connection sent join twice with tokens of different
\* identities.
C18_Original ==
    \A u \in Users, c \in Conns :
        (SlotOf(u) = c) <=> (UserOf(c) = u)

\* C19: every occupied slot of the Presence Table refers to a connected
\* socket: once the disconnect of a connection has been handled, no slot is
\* bound to it, so otherOnline is never true for an identity without a
\* connection and no forceLogout or presence is addressed to a closed one.
C19_Original ==
    \A u \in Users : SlotOf(u) # NoSocket => Live(SlotOf(u))

\* C20: the admission-control rejection cannot happen: no join with a known
\* token finds both slots taken without its own identity among them, so
\* joinError('Chat is private') is never emitted and every join with a known
\* token is admitted.
C20_AdmissionNeverRefused ==
    [][/\ \A i \in EmitsOf(trace', "joinError") :
             trace'[i].arg.message # "Chat is private"
       /\ (last'.op = "join" /\ KnownToken(last'.token))
            => /\ LET a  == sessions[last'.token]
                      S1 == EvictExisting(Cur, last'.sid, a)
                  IN  ~(Cardinality(DOMAIN S1.cu) >= 2 /\ a \notin DOMAIN S1.cu)
               /\ EmitsOf(trace', "joinError") = {}
               /\ \E i \in EmitsOf(trace', "joined") : trace'[i].addr = last'.sid
               /\ st'[last'.sid] = "open"
               /\ SlotOfN(sessions[last'.token]) = last'.sid]_vars

\* a join with a known token was admitted while both slots were taken by two
\* other connected sockets: it evicted one of them and the other stayed
C20_Witness ==
    /\ last.op = "join"
    /\ KnownToken(last.token)
    /\ SlotOf(sessions[last.token]) = last.sid
    /\ \E i \in EmitsOf(trace, "forceLogout") :
          trace[i].rcpt # {} /\ trace[i].addr # last.sid
    /\ \E u \in Users \ {sessions[last.token]} :
          SlotOf(u) # NoSocket /\ SlotOf(u) # last.sid /\ Live(SlotOf(u))
====
